---- MODULE Spec2Model ----
(***************************************************************************)
(* Flashcard quiz engine of app.js: dataset normalizer, type filter,       *)
(* question selector, answer set builder and the attempt state machine     *)
(* with its auto-advance timer.                                            *)
(*                                                                         *)
(* JavaScript values are tagged records: [t |-> "null"], [t |->            *)
(* "undefined"], [t |-> "NaN"] and finite numbers [t |-> "number", whole,  *)
(* frac], the decimal number whole + frac/10 (whole >= 0, frac a single    *)
(* decimal digit).  Strings are sequences of one-character strings.        *)
(***************************************************************************)
EXTENDS Integers, Sequences, FiniteSets

VARIABLES
  phase,             \* position of async init(): "loading", "loaded", "failed"
  raw,               \* the response of loadJson (delivered when phase leaves "loading")
  defaultTypes,      \* SETTINGS.defaultTypes
  autoNextEnabled,   \* SETTINGS.autoNext.enabled
  DATA,
  FILTERED_DATA,
  currentQuestion,
  correctId,
  score,
  answered,
  autoTimer,         \* handle held in autoTimer (0: null)
  pendingTimers,     \* handles of the setTimeout callbacks not yet fired or cleared
  wrongOptionIds,
  qCount,
  opts,              \* DOM.opts: per slot dataset.id, class "disabled", style
  records,           \* the last value returned by buildAnswerRecords
  last               \* the last event handled and the branch its handler took

vars == <<phase, raw, defaultTypes, autoNextEnabled, DATA, FILTERED_DATA,
          currentQuestion, correctId, score, answered, autoTimer,
          pendingTimers, wrongOptionIds, qCount, opts, records, last>>

-----------------------------------------------------------------------------
(* Bounds of the model *)

MaxLen == 2        \* records in the response of a session (Spec)
MaxLenBuild == 5   \* records in the response of SpecBuild
MaxLenNorm == 3    \* elements in the response of SpecNorm
MaxQ == 2          \* rounds started in a session
MaxScore == 40     \* a correct pick is taken only while the score stays <= MaxScore

(* Program constants *)

scoringCorrect == 20
scoringWrong == 0 - 10
scoringFloor == 0
answersCount == 4
NumSlots == 4      \* elements of class "opt" in the page

-----------------------------------------------------------------------------
(* JavaScript values *)

JsNull == [t |-> "null"]
JsUndefined == [t |-> "undefined"]
JsNaN == [t |-> "NaN"]
Num(w, f) == [t |-> "number", whole |-> w, frac |-> f]
Int2Num(n) == Num(n, 0)

IsFinite(v) == v.t = "number"
IsNullish(v) == v.t \in {"null", "undefined"}

\* a ?? b
Coalesce(a, b) == IF IsNullish(a) THEN b ELSE a

Max(a, b) == IF a >= b THEN a ELSE b
Min(a, b) == IF a <= b THEN a ELSE b

Range(s) == {s[i] : i \in 1..Len(s)}

-----------------------------------------------------------------------------
(* Strings *)

DigitChar == <<"0", "1", "2", "3", "4", "5", "6", "7", "8", "9">>
DigitOf(c) == CHOOSE d \in 0..9 : DigitChar[d + 1] = c
IsDigit(c) == \E d \in 0..9 : DigitChar[d + 1] = c

RECURSIVE Digits(_)
Digits(n) == IF n < 10 THEN <<DigitChar[n + 1]>>
             ELSE Digits(n \div 10) \o <<DigitChar[(n % 10) + 1]>>

\* String(n) of a finite number: "7", "1.5"
NumToString(v) ==
  Digits(v.whole) \o (IF v.frac = 0 THEN <<>> ELSE <<".", DigitChar[v.frac + 1]>>)

RECURSIVE TrimLeft(_)
TrimLeft(s) == IF s # <<>> /\ Head(s) = " " THEN TrimLeft(Tail(s)) ELSE s

RECURSIVE TrimRight(_)
TrimRight(s) == IF s # <<>> /\ s[Len(s)] = " "
                THEN TrimRight(SubSeq(s, 1, Len(s) - 1)) ELSE s

\* String.prototype.trim
Trim(s) == TrimRight(TrimLeft(s))

\* String(x ?? "") of a TYPE field: a string is itself, a nullish value is ""
TypeToString(v) == IF v.t = "string" THEN v.s ELSE <<>>

RECURSIVE DigitPrefix(_, _)
DigitPrefix(s, acc) ==
  IF s # <<>> /\ IsDigit(Head(s))
  THEN DigitPrefix(Tail(s), acc * 10 + DigitOf(Head(s)))
  ELSE acc

\* parseInt(s, 10): leading blanks are skipped, the longest prefix of decimal
\* digits is read and the rest of the string is ignored; NaN when no digit
\* is read (the empty string, and dataset.id of a slot never rendered).
ParseInt(s) ==
  LET u == TrimLeft(s)
  IN IF u # <<>> /\ IsDigit(Head(u)) THEN Int2Num(DigitPrefix(u, 0)) ELSE JsNaN

\* Number(s) of a string: blanks around it are ignored, the empty string is
\* 0, a string of decimal digits is its value and any other string is NaN
\* (signs, fractions and exponents do not occur in the strings used here)
StringToNumber(s) ==
  LET u == Trim(s)
  IN IF u = <<>> THEN Int2Num(0)
     ELSE IF \A i \in 1..Len(u) : IsDigit(u[i]) THEN Int2Num(DigitPrefix(u, 0))
     ELSE JsNaN

\* Number(v) for the values a record field holds here: a number is itself,
\* a string is converted by StringToNumber, anything else is NaN.  Never
\* applied to a nullish value: ?? has replaced those by the position.
ToNumber(v) == IF v.t = "number" THEN v
               ELSE IF v.t = "string" THEN StringToNumber(v.s)
               ELSE JsNaN

-----------------------------------------------------------------------------
(* Dataset normalizer and type filter *)

\* the callback reading ID before id
NormalizeRecordIDFirst(it, idx) ==
  LET idRaw == Coalesce(it.ID, Coalesce(it.id, Int2Num(idx)))
      id == ToNumber(idRaw)
  IN [t |-> "object",
      id |-> IF IsFinite(id) THEN id ELSE Int2Num(idx),
      TYPE |-> Trim(TypeToString(it.TYPE))]

\* the callback of arr.map in normalizeData, idx counted from 1
NormalizeRecord(it, idx) ==
  LET idRaw == Coalesce(it.id, Coalesce(it.ID, Int2Num(idx)))
      id == ToNumber(idRaw)
  IN [t |-> "object",
      id |-> IF IsFinite(id) THEN id ELSE Int2Num(idx),
      TYPE |-> Trim(TypeToString(it.TYPE))]

\* it.id of an element that is null throws a TypeError
NormalizeThrows(r) ==
  r.t = "array" /\ \E i \in 1..Len(r.items) : r.items[i].t = "null"

normalizeData(r) ==
  LET arr == IF r.t = "array" THEN r.items ELSE <<>>
      mapped == [i \in 1..Len(arr) |-> NormalizeRecord(arr[i], i)]
      Keep(it) == IsFinite(it.id) /\ it.TYPE # <<>>
  IN SelectSeq(mapped, Keep)

\* the value applyTypeFilter assigns to FILTERED_DATA
applyTypeFilter(data, typeArray) ==
  LET trimmed == [i \in 1..Len(typeArray) |-> Trim(typeArray[i])]
      NonEmpty(x) == x # <<>>
      types == SelectSeq(trimmed, NonEmpty)
      Match(item) == item.TYPE \in Range(types)
      filtered == SelectSeq(data, Match)
  IN IF Len(filtered) = 0 THEN data ELSE filtered

-----------------------------------------------------------------------------
(* Shuffle and the answer set builder *)

Swap(arr, i, j) == [arr EXCEPT ![i] = arr[j], ![j] = arr[i]]

\* the results of the loop of shuffle from index i down (indices from 1)
RECURSIVE ShuffleFrom(_, _)
ShuffleFrom(arr, i) ==
  IF i <= 1 THEN {arr}
  ELSE UNION {ShuffleFrom(Swap(arr, i, j), i - 1) : j \in 1..i}

\* every array shuffle(arr) can leave, randInt ranging over its values
shuffle(arr) == ShuffleFrom(arr, Len(arr))

\* the for-loop without its test of used
RECURSIVE DrawFromDup(_, _, _)
DrawFromDup(pool, picks, used) ==
  IF pool = <<>> \/ Len(picks) >= answersCount THEN [picks |-> picks, used |-> used]
  ELSE DrawFromDup(Tail(pool), Append(picks, Head(pool)), used \cup {Head(pool).id})

\* one of the two for-loops of buildAnswerRecords over an ordered pool
RECURSIVE DrawFrom(_, _, _)
DrawFrom(pool, picks, used) ==
  IF pool = <<>> \/ Len(picks) >= answersCount THEN [picks |-> picks, used |-> used]
  ELSE IF Head(pool).id \in used THEN DrawFrom(Tail(pool), picks, used)
  ELSE DrawFrom(Tail(pool), Append(picks, Head(pool)), used \cup {Head(pool).id})

\* buildAnswerRecords without its second pool
buildAnswerRecordsNoFallback(data, filtered, cq, cid) ==
  LET NotCorrect(it) == it.id # cid
      pool1 == SelectSeq(filtered, NotCorrect)
      after1 == {DrawFrom(p, <<cq>>, {cid}) : p \in shuffle(pool1)}
  IN UNION {shuffle(a.picks) : a \in after1}

\* every array buildAnswerRecords can return
buildAnswerRecords(data, filtered, cq, cid) ==
  LET NotCorrect(it) == it.id # cid
      pool1 == SelectSeq(filtered, NotCorrect)
      after1 == {DrawFrom(p, <<cq>>, {cid}) : p \in shuffle(pool1)}
      pool2 == SelectSeq(data, NotCorrect)
      after2 == UNION {IF Len(a.picks) < answersCount
                       THEN {DrawFrom(p, a.picks, a.used) : p \in shuffle(pool2)}
                       ELSE {a} : a \in after1}
  IN UNION {shuffle(a.picks) : a \in after2}

-----------------------------------------------------------------------------
(* Option slots *)

Slots == 1..NumSlots

\* DOM.opts as the page delivers it: no dataset.id, no class, no inline style
InitialOpt == [id |-> <<>>, disabled |-> FALSE, visibility |-> "", display |-> ""]

\* renderAnswers, given the array buildAnswerRecords returned
renderAnswers(o, recs) ==
  [index \in Slots |->
     IF index > Len(recs)
     THEN [o[index] EXCEPT !.display = "none", !.id = <<>>]
     ELSE [o[index] EXCEPT !.id = NumToString(recs[index].id)]]

\* the DOM.opts.forEach that ends nextQuestion
ResetOpts(o) ==
  [index \in Slots |->
     [o[index] EXCEPT !.disabled = FALSE, !.visibility = "visible", !.display = ""]]

\* a === b
StrictEquals(a, b) == a.t # "NaN" /\ b.t # "NaN" /\ a = b

-----------------------------------------------------------------------------
(* Timers *)

\* a clearTimeout that cancels nothing
clearTimeoutNoop(pending, handle) == pending

\* clearTimeout(handle) on the set of pending callbacks
clearTimeout(pending, handle) == pending \ {handle}

\* setTimeout returns a handle that differs from every handle still pending
\* and from the one held in autoTimer
NewHandle(pending, held) ==
  CHOOSE h \in 1..(Cardinality(pending) + 2) :
    /\ h \notin pending \cup {held}
    /\ \A k \in 1..(h - 1) : k \in pending \cup {held}

Event(op, path) == [op |-> op, path |-> path]

-----------------------------------------------------------------------------
(* Question engine *)

\* nextQuestion counting the round before it selects the question
nextQuestionCountFirst(data, pend, op) ==
  /\ pendingTimers' = clearTimeout(pend, autoTimer)
  /\ answered' = FALSE
  /\ wrongOptionIds' = {}
  /\ FILTERED_DATA' = applyTypeFilter(data, defaultTypes)
  /\ qCount' = qCount + 1
  /\ IF FILTERED_DATA' = <<>>
     THEN /\ currentQuestion' = JsUndefined
          /\ last' = Event(op, "throw")
          /\ UNCHANGED <<correctId, opts, records>>
     ELSE \E cq \in Range(FILTERED_DATA') :
            \E recs \in buildAnswerRecords(data, FILTERED_DATA', cq, cq.id) :
              /\ currentQuestion' = cq
              /\ correctId' = cq.id
              /\ records' = recs
              /\ opts' = ResetOpts(renderAnswers(opts, recs))
              /\ last' = Event(op, "round")
  /\ UNCHANGED <<score, autoTimer>>

\* nextQuestion without the clearTimeout(autoTimer) it begins with
nextQuestionNoClear(data, pend, op) ==
  /\ pendingTimers' = pend
  /\ answered' = FALSE
  /\ wrongOptionIds' = {}
  /\ FILTERED_DATA' = applyTypeFilter(data, defaultTypes)
  /\ IF FILTERED_DATA' = <<>>
     THEN /\ currentQuestion' = JsUndefined
          /\ last' = Event(op, "throw")
          /\ UNCHANGED <<correctId, qCount, opts, records>>
     ELSE \E cq \in Range(FILTERED_DATA') :
            \E recs \in buildAnswerRecords(data, FILTERED_DATA', cq, cq.id) :
              /\ currentQuestion' = cq
              /\ correctId' = cq.id
              /\ qCount' = qCount + 1
              /\ records' = recs
              /\ opts' = ResetOpts(renderAnswers(opts, recs))
              /\ last' = Event(op, "round")
  /\ UNCHANGED <<score, autoTimer>>

\* nextQuestion on dataset data with the callbacks pend pending
nextQuestion(data, pend, op) ==
  /\ pendingTimers' = clearTimeout(pend, autoTimer)
  /\ answered' = FALSE
  /\ wrongOptionIds' = {}
  /\ FILTERED_DATA' = applyTypeFilter(data, defaultTypes)
  /\ IF FILTERED_DATA' = <<>>
     THEN \* randomItem([]) is undefined and currentQuestion.id throws
          /\ currentQuestion' = JsUndefined
          /\ last' = Event(op, "throw")
          /\ UNCHANGED <<correctId, qCount, opts, records>>
     ELSE \E cq \in Range(FILTERED_DATA') :
            \E recs \in buildAnswerRecords(data, FILTERED_DATA', cq, cq.id) :
              /\ currentQuestion' = cq
              /\ correctId' = cq.id
              /\ qCount' = qCount + 1
              /\ records' = recs
              /\ opts' = ResetOpts(renderAnswers(opts, recs))
              /\ last' = Event(op, "round")
  /\ UNCHANGED <<score, autoTimer>>

\* init() resumes after await loadJson with the parsed response
LoadOk ==
  /\ phase = "loading"
  /\ ~NormalizeThrows(raw)
  /\ phase' = "loaded"
  /\ DATA' = normalizeData(raw)
  /\ nextQuestion(DATA', pendingTimers, "load")
  /\ UNCHANGED <<raw, defaultTypes, autoNextEnabled>>

\* loadJson rejects (fetch or parse error): the response never arrives
LoadFail ==
  /\ phase = "loading"
  /\ phase' = "failed"
  /\ last' = Event("load", "throw")
  /\ UNCHANGED <<raw, defaultTypes, autoNextEnabled, DATA, FILTERED_DATA,
                 currentQuestion, correctId, score, answered, autoTimer,
                 pendingTimers, wrongOptionIds, qCount, opts, records>>

\* the response arrives and normalizeData throws on it: init() rejects
NormalizeFail ==
  /\ phase = "loading"
  /\ NormalizeThrows(raw)
  /\ phase' = "failed"
  /\ last' = Event("load", "typeerror")
  /\ UNCHANGED <<raw, defaultTypes, autoNextEnabled, DATA, FILTERED_DATA,
                 currentQuestion, correctId, score, answered, autoTimer,
                 pendingTimers, wrongOptionIds, qCount, opts, records>>

onSkip ==
  /\ qCount < MaxQ
  /\ nextQuestion(DATA, pendingTimers, "skip")
  /\ UNCHANGED <<phase, raw, defaultTypes, autoNextEnabled, DATA>>

onContinue ==
  /\ qCount < MaxQ
  /\ nextQuestion(DATA, pendingTimers, "continue")
  /\ UNCHANGED <<phase, raw, defaultTypes, autoNextEnabled, DATA>>

\* the callback armed by handleCorrect runs
TimerFires ==
  /\ qCount < MaxQ
  /\ \E h \in pendingTimers :
       nextQuestion(DATA, pendingTimers \ {h}, "timer")
  /\ UNCHANGED <<phase, raw, defaultTypes, autoNextEnabled, DATA>>

-----------------------------------------------------------------------------
(* Attempt state machine *)

\* a clamp that forgets the lower limit
clampNoFloor(n, min) == n

clamp(n, min) == Max(min, n)   \* the upper limit passed is +Infinity

handleWrong(i, pickedId) ==
  /\ score' = clamp(score + scoringWrong, scoringFloor)
  /\ wrongOptionIds' = wrongOptionIds \cup {pickedId}
  /\ opts' = [opts EXCEPT ![i].disabled = TRUE]
  /\ last' = Event("pick", "wrong")
  /\ UNCHANGED <<answered, autoTimer, pendingTimers>>

\* handleCorrect without the setTimeout
handleCorrectNoArm(i) ==
  /\ score + scoringCorrect <= MaxScore
  /\ score' = score + scoringCorrect
  /\ answered' = TRUE
  /\ opts' = [o \in Slots |-> [opts[o] EXCEPT !.disabled = TRUE]]
  /\ last' = Event("pick", "correct")
  /\ UNCHANGED <<wrongOptionIds, autoTimer, pendingTimers>>

handleCorrect(i) ==
  /\ score + scoringCorrect <= MaxScore
  /\ score' = score + scoringCorrect
  /\ answered' = TRUE
  /\ opts' = [o \in Slots |-> [opts[o] EXCEPT !.disabled = TRUE]]
  /\ IF autoNextEnabled
     THEN LET cleared == clearTimeout(pendingTimers, autoTimer)
              h == NewHandle(cleared, autoTimer)
          IN /\ autoTimer' = h
             /\ pendingTimers' = cleared \cup {h}
     ELSE UNCHANGED <<autoTimer, pendingTimers>>
  /\ last' = Event("pick", "correct")
  /\ UNCHANGED wrongOptionIds

\* onPickOption without its two early returns
PickPathNoReturn(i) ==
  LET pickedId == ParseInt(opts[i].id)
  IN IF ~IsFinite(pickedId) THEN "nan"
     ELSE IF pickedId \in wrongOptionIds THEN "repeat"
     ELSE IF StrictEquals(pickedId, correctId) THEN "correct"
     ELSE "wrong"

\* the branch onPickOption takes on slot i
PickPath(i) ==
  LET pickedId == ParseInt(opts[i].id)
  IN IF answered THEN "locked"
     ELSE IF opts[i].disabled THEN "disabled"
     ELSE IF ~IsFinite(pickedId) THEN "nan"
     ELSE IF pickedId \in wrongOptionIds THEN "repeat"
     ELSE IF StrictEquals(pickedId, correctId) THEN "correct"
     ELSE "wrong"

onPickOption(i) ==
  /\ CASE PickPath(i) = "correct" -> handleCorrect(i)
       [] PickPath(i) = "wrong" -> handleWrong(i, ParseInt(opts[i].id))
       [] OTHER -> /\ last' = Event("pick", PickPath(i))
                   /\ UNCHANGED <<score, answered, autoTimer, pendingTimers,
                                  wrongOptionIds, opts>>
  /\ UNCHANGED <<phase, raw, defaultTypes, autoNextEnabled, DATA, FILTERED_DATA,
                 currentQuestion, correctId, qCount, records>>

\* the slots onHint keeps as candidates, in slot order
HintCandidates ==
  LET Cand(i) == /\ opts[i].display # "none"
                 /\ opts[i].visibility # "hidden"
                 /\ ~opts[i].disabled
                 /\ ~StrictEquals(ParseInt(opts[i].id), correctId)
      all == [i \in Slots |-> i]
  IN SelectSeq(all, Cand)

onHint ==
  /\ IF answered THEN
       /\ last' = Event("hint", "locked")
       /\ UNCHANGED opts
     ELSE IF HintCandidates = <<>> THEN
       /\ last' = Event("hint", "none")
       /\ UNCHANGED opts
     ELSE \E c \in shuffle(HintCandidates) :
       /\ opts' = [opts EXCEPT ![c[1]].visibility = "hidden"]
       /\ last' = Event("hint", "hide")
  /\ UNCHANGED <<phase, raw, defaultTypes, autoNextEnabled, DATA, FILTERED_DATA,
                 currentQuestion, correctId, score, answered, autoTimer,
                 pendingTimers, wrongOptionIds, qCount, records>>

-----------------------------------------------------------------------------
(* Inputs and specifications *)

Str(s) == [t |-> "string", s |-> s]
RawRecord(id, type) == [t |-> "object", id |-> id, ID |-> JsUndefined, TYPE |-> Str(type)]

SeqsUpTo(S, n) == UNION {[1..k -> S] : k \in 0..n}

\* records of a session: an id taken from the position, or the id 1.5
SessionRecords == {RawRecord(JsUndefined, <<"A">>), RawRecord(Num(1, 5), <<"A">>)}

\* records for the answer set builder: ids from the position or 1, two types
BuildRecords == {RawRecord(JsUndefined, <<"A">>), RawRecord(Int2Num(1), <<"A">>),
                 RawRecord(JsUndefined, <<"B">>)}

InitState ==
  /\ phase = "loading"
  /\ DATA = <<>>
  /\ FILTERED_DATA = <<>>
  /\ currentQuestion = JsNull
  /\ correctId = JsNull
  /\ score = 0
  /\ answered = FALSE
  /\ autoTimer = 0
  /\ pendingTimers = {}
  /\ wrongOptionIds = {}
  /\ qCount = 0
  /\ opts = [i \in Slots |-> InitialOpt]
  /\ records = <<>>
  /\ last = Event("init", "")

Init ==
  /\ InitState
  /\ raw \in {[t |-> "array", items |-> s] : s \in SeqsUpTo(SessionRecords, MaxLen)}
  /\ defaultTypes = <<<<"A">>>>
  /\ autoNextEnabled \in BOOLEAN

Next ==
  \/ LoadOk
  \/ LoadFail
  \/ onSkip
  \/ onContinue
  \/ TimerFires
  \/ \E i \in Slots : onPickOption(i)
  \/ onHint

Spec == Init /\ [][Next]_vars

\* the session with its timers: a callback that stays armed eventually runs
SpecFair == Spec /\ WF_vars(TimerFires)

\* the program up to the end of init(): load, normalize, filter, first round
InitBuild ==
  /\ InitState
  /\ raw \in {[t |-> "array", items |-> s] : s \in SeqsUpTo(BuildRecords, MaxLenBuild)}
  /\ defaultTypes \in {<<<<"A">>>>, <<<<"N">>>>}
  /\ autoNextEnabled = TRUE

NextBuild ==
  \/ LoadOk
  \/ LoadFail

SpecBuild == InitBuild /\ [][NextBuild]_vars

\* elements for the normalizer: null, or an object whose id is absent, 1.5 or
\* the string "x", whose ID is absent or the string "2", and whose TYPE is
\* absent, blank or " A"
NormRecords ==
  {JsNull} \cup
  {[t |-> "object", id |-> a, ID |-> b, TYPE |-> c] :
     a \in {JsUndefined, Num(1, 5), Str(<<"x">>)},
     b \in {JsUndefined, Str(<<"2">>)},
     c \in {JsUndefined, Str(<<" ">>), Str(<<" ", "A">>)}}

\* the response is an array of such elements, or not an array at all
InitNorm ==
  /\ InitState
  /\ raw \in {[t |-> "object"]} \cup
             {[t |-> "array", items |-> s] : s \in SeqsUpTo(NormRecords, MaxLenNorm)}
  /\ defaultTypes = <<<<"A">>>>
  /\ autoNextEnabled = TRUE

NextNorm ==
  \/ LoadOk
  \/ LoadFail
  \/ NormalizeFail

SpecNorm == InitNorm /\ [][NextNorm]_vars

-----------------------------------------------------------------------------
(* Answer set builder: C1, C2, C3, C10 (under SpecBuild) *)

Ids(s) == {s[i].id : i \in 1..Len(s)}
RoundStarted == qCount >= 1

\* C1: in every round the answer set returned by buildAnswerRecords holds
\* the correct entry's id exactly once and no other id more than once.
C1_CorrectOnceNoRepeat ==
  RoundStarted =>
    /\ Cardinality({i \in 1..Len(records) : records[i].id = correctId}) = 1
    /\ \A i, j \in 1..Len(records) : i # j => records[i].id # records[j].id

\* a full answer set built over a Dataset that holds the correct id twice
C1_Witness ==
  /\ RoundStarted
  /\ Len(records) = answersCount
  /\ \E i, j \in 1..Len(DATA) : i # j /\ DATA[i].id = correctId /\ DATA[j].id = correctId

\* C2: the answer set has answersCount entries when the whole Dataset holds
\* at least answersCount distinct ids, and otherwise as many entries as the
\* Dataset has distinct ids.
C2_AnswerSetSize ==
  RoundStarted => Len(records) = Min(answersCount, Cardinality(Ids(DATA)))

\* three distinct ids in a Dataset of more than three entries, part of them
\* outside the Filtered View: three answers, one of them from the fallback pool
C2_Witness ==
  /\ RoundStarted
  /\ Cardinality(Ids(DATA)) = 3
  /\ Len(DATA) > 3
  /\ Len(records) = 3
  /\ \E i \in 1..Len(records) : records[i] \notin Range(FILTERED_DATA)

\* C3: when the Filtered View has at least answersCount entries, every
\* returned entry belongs to the Filtered View.
C3_NoFallbackWhenViewLarge ==
  (RoundStarted /\ Len(FILTERED_DATA) >= answersCount) =>
    \A i \in 1..Len(records) : records[i] \in Range(FILTERED_DATA)

\* C10: after the load, for every type selection and every Dataset the
\* normalizer produces, the Filtered View is non-empty and the round starts.
C10_FilteredViewNonEmpty ==
  phase = "loaded" => (FILTERED_DATA # <<>> /\ RoundStarted)

-----------------------------------------------------------------------------
(* Attempt state machine and timer: C4 .. C9 (under Spec) *)

PickStep == last'.op = "pick"
Shown(i) == i <= Len(records)   \* slot i displays records[i]

\* C4: the score is never below scoring.floor, and a wrong pick sets it to
\* max(floor, score + scoring.wrong); with floor 0 and wrong -10, 5 becomes 0.
C4_ScoreFloor ==
  /\ [](score >= scoringFloor)
  /\ [][(PickStep /\ last'.path = "wrong") =>
          score' = Max(scoringFloor, score + scoringWrong)]_vars
  /\ [](clamp(5 + scoringWrong, scoringFloor) = 0)

\* a wrong pick in the first round, where the score was still 0 before it:
\* the sum 0 + scoring.wrong is below the floor and the score stays 0
C4_Witness ==
  /\ qCount = 1
  /\ ~answered
  /\ last = Event("pick", "wrong")
  /\ wrongOptionIds # {}
  /\ score = scoringFloor

\* C5: once answered, a pick on any option leaves score, wrongOptionIds,
\* answered and the pending timer unchanged.
C5_LockedPickNoChange ==
  [][(answered /\ PickStep) =>
       UNCHANGED <<score, wrongOptionIds, answered, autoTimer, pendingTimers, opts>>]_vars

\* a pick delivered to a Locked round whose timer is armed
C5_Witness ==
  /\ answered
  /\ last = Event("pick", "locked")
  /\ pendingTimers # {}

\* C6: skip and continue, in an Active or Locked round, timer armed or not,
\* start a new round and leave no auto-advance pending.
C6_SkipContinueCancel ==
  [][(last'.op \in {"skip", "continue"}) =>
       /\ pendingTimers' = {}
       /\ RoundStarted => /\ qCount' = qCount + 1
                          /\ ~answered'
                          /\ wrongOptionIds' = {}
                          /\ last'.path = "round"]_vars

\* one correct pick armed the timer in round 1 and a skip started round 2:
\* the armed callback is gone
C6_Witness ==
  /\ last = Event("skip", "round")
  /\ qCount = 2
  /\ score = scoringCorrect
  /\ autoTimer # 0
  /\ pendingTimers = {}

\* C7: at most one auto-advance callback is outstanding, and it is the one
\* whose handle autoTimer holds.
C7_AtMostOneTimer ==
  /\ Cardinality(pendingTimers) <= 1
  /\ pendingTimers \subseteq {autoTimer}

\* a second arming, after the first callback was cancelled by a new round
C7_Witness ==
  /\ answered
  /\ autoTimer = 2
  /\ pendingTimers = {2}

\* C8: a pick, while Active, of an option whose id differs from the correct
\* id records that id in wrongOptionIds, applies the wrong-pick score change,
\* disables only that option and leaves the round Active; a later pick of the
\* same option changes nothing.
C8_WrongPick ==
  [][\A i \in Slots :
       (onPickOption(i) /\ ~answered /\ Shown(i) /\ records[i].id # correctId) =>
         IF opts[i].disabled
         THEN UNCHANGED <<score, wrongOptionIds, answered, opts>>
         ELSE /\ wrongOptionIds' = wrongOptionIds \cup {records[i].id}
              /\ score' = Max(scoringFloor, score + scoringWrong)
              /\ opts' = [opts EXCEPT ![i].disabled = TRUE]
              /\ ~answered']_vars

\* C9: a pick, while Active, of the option carrying the correct id adds
\* scoring.correct, sets answered, disables every option and arms the timer
\* if and only if autoNext.enabled.
C9_CorrectPick ==
  [][\A i \in Slots :
       (onPickOption(i) /\ ~answered /\ Shown(i) /\ records[i].id = correctId) =>
         /\ score' = score + scoringCorrect
         /\ answered'
         /\ \A o \in Slots : opts'[o].disabled
         /\ pendingTimers' = IF autoNextEnabled THEN {autoTimer'} ELSE {}
         /\ autoNextEnabled => autoTimer' # 0]_vars

-----------------------------------------------------------------------------
(* Dataset normalizer: C11, C12, C13 (under SpecNorm) *)

\* an element is well-formed when it is an object with a usable TYPE
WellFormed(el) == el.t = "object" /\ Trim(TypeToString(el.TYPE)) # <<>>

\* the positions of the well-formed elements of a response, in order
KeptIndices(r) ==
  LET n == IF r.t = "array" THEN Len(r.items) ELSE 0
      all == [i \in 1..n |-> i]
      Good(i) == WellFormed(r.items[i])
  IN SelectSeq(all, Good)

\* the id the record at position pos is to get: its id field if present, else
\* its ID field, else pos; pos again when the chosen value is not finite
ExpectedId(it, pos) ==
  LET chosen == IF ~IsNullish(it.id) THEN it.id
                ELSE IF ~IsNullish(it.ID) THEN it.ID
                ELSE Int2Num(pos)
      n == ToNumber(chosen)
  IN IF n.t = "number" THEN n ELSE Int2Num(pos)

\* C11: within the Dataset produced by normalizeData no two entries have the
\* same id.
C11_UniqueIds ==
  phase = "loaded" =>
    \A i, j \in 1..Len(DATA) : i # j => DATA[i].id # DATA[j].id

\* C12: normalizeData never fails: whenever the response arrives the Dataset
\* is set, to the empty Dataset for a non-array and otherwise to the
\* well-formed elements in their original order, the others being dropped.
C12_NormalizeNeverFails ==
  [][(phase = "loading" /\ phase' # "loading" /\ ~LoadFail) =>
       /\ phase' = "loaded"
       /\ Len(DATA') = Len(KeptIndices(raw))
       /\ \A k \in 1..Len(DATA') :
            DATA'[k].TYPE = Trim(TypeToString(raw.items[KeptIndices(raw)[k]].TYPE))]_vars

\* C13: every entry of the Dataset has a finite numeric id and a non-empty
\* trimmed type, and its id is the record's id field if present, else its ID
\* field, else its 1-based position, the position replacing a value that does
\* not coerce to a finite number.
C13_FiniteIdAndType ==
  phase = "loaded" =>
    /\ Len(DATA) = Len(KeptIndices(raw))
    /\ \A k \in 1..Len(DATA) :
         /\ DATA[k].id.t = "number"
         /\ DATA[k].TYPE # <<>>
         /\ Head(DATA[k].TYPE) # " "
         /\ DATA[k].TYPE[Len(DATA[k].TYPE)] # " "
         /\ DATA[k].id = ExpectedId(raw.items[KeptIndices(raw)[k]], KeptIndices(raw)[k])

\* a Dataset with an entry whose id comes from ID and an entry at position 3,
\* behind a dropped record, whose id "x" is not a number: it gets the id 3
\* although its ID is "2"
C13_Witness ==
  /\ phase = "loaded"
  /\ Len(DATA) = 2
  /\ raw.items[1].id = JsUndefined /\ raw.items[1].ID = Str(<<"2">>)
  /\ DATA[1].id = Int2Num(2)
  /\ ~WellFormed(raw.items[2])
  /\ raw.items[3].id = Str(<<"x">>) /\ raw.items[3].ID = Str(<<"2">>)
  /\ DATA[2].id = Int2Num(3)
  /\ DATA[2].TYPE = <<"A">>

-----------------------------------------------------------------------------
(* Counter, hints, load and read-back: C14 .. C20 (under Spec and SpecFair) *)

Active == RoundStarted /\ ~answered
Correct(i) == Shown(i) /\ records[i].id = correctId           \* slot i shows the correct entry
Selectable(i) == ~opts[i].disabled /\ opts[i].visibility # "hidden"

\* C14: the question counter starts at 0, grows by exactly 1 with every
\* round start (first round, skip, continue, auto-advance) and is changed by
\* nothing else.
C14_QuestionCounter ==
  /\ [](last.op = "init" => qCount = 0)
  /\ [][/\ last'.path = "round" => qCount' = qCount + 1
        /\ last'.path # "round" => qCount' = qCount]_vars

\* the second round, started by the auto-advance callback
C14_Witness ==
  /\ qCount = 2
  /\ last = Event("timer", "round")
  /\ score = scoringCorrect

\* C15: hint never changes score, wrongOptionIds or answered, never hides or
\* disables the option carrying the correct id, and changes nothing when the
\* round is Locked or no slot other than the correct one is selectable.
C15_HintFrame ==
  [][(RoundStarted /\ last'.op = "hint") =>
       /\ UNCHANGED <<score, wrongOptionIds, answered>>
       /\ \A i \in Slots : Correct(i) => opts'[i] = opts[i]
       /\ (answered \/ ~\E i \in Slots : ~Correct(i) /\ Selectable(i)) =>
            UNCHANGED opts]_vars

\* C16: a pick delivered, while the round is Active, to an option hidden by
\* hint changes neither score nor wrongOptionIds.
C16_HiddenUnselectable ==
  [][\A i \in Slots :
       (Active /\ opts[i].visibility = "hidden" /\ onPickOption(i)) =>
         UNCHANGED <<score, wrongOptionIds>>]_vars

\* C17: while the load is pending or has failed no round begins: the
\* question counter is 0 and neither a current question nor a correct id is
\* set, whatever skips, continues, hints and picks occur.
C17_NoRoundWithoutLoad ==
  phase \in {"loading", "failed"} =>
    /\ qCount = 0
    /\ currentQuestion.t \in {"null", "undefined"}
    /\ correctId = JsNull
    /\ records = <<>>

\* a continue handled after the load failed: nextQuestion threw
C17_Witness ==
  /\ phase = "failed"
  /\ last = Event("continue", "throw")
  /\ currentQuestion = JsUndefined
  /\ \E i \in Slots : opts[i].visibility = "hidden"

\* C18: in every Active state of a round the option carrying the correct id
\* is neither disabled nor hidden.
C18_CorrectSelectable ==
  Active => \A i \in Slots : Correct(i) => Selectable(i)

\* C19: with auto-advance enabled a correct pick is eventually followed by a
\* new round; with auto-advance disabled no timer is ever armed and a Locked
\* round is left only by skip or continue.  (A round is started only while
\* qCount < MaxQ.)
C19_AutoAdvance ==
  /\ (answered /\ autoNextEnabled /\ qCount < MaxQ) ~> ~answered
  /\ [](~autoNextEnabled => pendingTimers = {})
  /\ []((answered /\ autoNextEnabled) => pendingTimers # {})
  /\ [][(answered /\ ~autoNextEnabled /\ ~answered') =>
          last'.op \in {"skip", "continue"}]_vars

\* the callback armed by a correct pick in round 1 has run and started round 2
C19_Witness ==
  /\ autoNextEnabled
  /\ last = Event("timer", "round")
  /\ qCount = 2
  /\ autoTimer # 0
  /\ pendingTimers = {}

\* C20: the id read back from the option that displays an entry equals the
\* entry's id, and two distinct options never read back the same id.
C20_IdReadBack ==
  RoundStarted =>
    /\ \A i \in Slots : Shown(i) => ParseInt(opts[i].id) = records[i].id
    /\ \A i, j \in Slots :
         (Shown(i) /\ Shown(j) /\ i # j) => ParseInt(opts[i].id) # ParseInt(opts[j].id)

\* C21: an auto-advance callback is pending only while the round is Locked:
\* whenever answered is false no callback is pending, every step that starts
\* a round leaves none pending, and the callback that runs was armed by the
\* correct pick of the round it advances from (it is the one autoTimer holds,
\* the round is Locked, and it starts the next round).
C21_TimerOnlyWhileLocked ==
  /\ [](~answered => pendingTimers = {})
  /\ [][/\ qCount' # qCount => pendingTimers' = {}
        /\ last'.op = "timer" =>
             /\ RoundStarted /\ answered
             /\ pendingTimers = {autoTimer}
             /\ last'.path = "round" /\ qCount' = qCount + 1
             /\ ~answered']_vars

\* the callback armed in round 1 was pending when continue started round 2,
\* which is Active with nothing pending
C21_Witness ==
  /\ last = Event("continue", "round")
  /\ qCount = 2
  /\ ~answered
  /\ score = scoringCorrect
  /\ autoTimer # 0
  /\ pendingTimers = {}

\* slot i shows an entry of the answer set other than the correct one
Distractor(i) == Shown(i) /\ records[i].id # correctId

\* C22: a hint in an Active round that still has a selectable distractor of
\* the answer set hides exactly one such distractor and changes no other
\* option, also when the answer set has fewer entries than there are slots.
C22_HintRemovesOneDistractor ==
  [][(Active /\ last'.op = "hint" /\ \E i \in Slots : Distractor(i) /\ Selectable(i)) =>
       \E i \in Slots :
         /\ Distractor(i) /\ Selectable(i)
         /\ opts'[i].visibility = "hidden"
         /\ \A j \in Slots \ {i} : opts'[j] = opts[j]]_vars

====
